---- MODULE Spec2Model ----
(***************************************************************************)
(* A model of src/src/search_engine.py: the SearchEngine class, its four   *)
(* sqlite relations and its in-memory index registry.                      *)
(*                                                                         *)
(* Strings are modelled as sequences of words (the maximal \w+ runs of the *)
(* text, separated by single blanks); the empty string is <<>>.  A word is *)
(* an atom whose lower-case form and length are given by tables.           *)
(***************************************************************************)
EXTENDS Integers, Sequences, FiniteSets, TLC

VARIABLES
    indexes,          \* self.indexes: uid -> Index (in memory)
    db_indexes,       \* relation indexes: uid -> row
    index_documents,  \* relation index_documents: <<index_uid, doc_id>> -> JSON text
    term_index,       \* relation term_index: <<index_uid, term, doc_id, field>> -> positions
    now,              \* the reading datetime.utcnow() gives
    ret,              \* the last call: its name, arguments and outcome
    written,          \* history: <<uid, doc_id>> -> the document last written by a successful call
    phase,            \* history: uid -> how the index was built so far
    probe,            \* inputs of a direct call of _matches_filters
    pc,               \* thread -> the place in its call
    local,            \* thread -> the call's arguments and local variables
    hist              \* history: the states between writes, as threads can see them

vars == <<indexes, db_indexes, index_documents, term_index, now, ret, written, phase, probe,
          pc, local, hist>>

----------------------------------------------------------------------------
(* Values: text, number, boolean.                                          *)

Text(ws) == [t |-> "text", n |-> 0, s |-> ws]
Num(k)   == [t |-> "num",  n |-> k, s |-> <<>>]
Bool(b)  == [t |-> "bool", n |-> IF b THEN 1 ELSE 0, s |-> <<>>]

\* Python's == on two values: bool is a subclass of int, so True == 1 and
\* False == 0; a str never equals a number.
PyEq(a, b) ==
    IF a.t = "text" \/ b.t = "text"
    THEN a.t = b.t /\ a.s = b.s
    ELSE a.n = b.n

DigitWord(k) ==
    CASE k = 0 -> "0" [] k = 1 -> "1" [] k = 2 -> "2" [] k = 3 -> "3"
      [] k = 100 -> "100" [] OTHER -> "9"

\* str(value)
Str(v) ==
    CASE v.t = "text" -> v.s
      [] v.t = "num"  -> <<DigitWord(v.n)>>
      [] OTHER        -> IF v.n = 1 THEN <<"True">> ELSE <<"False">>

\* str.lower() of one word
LowerWord(w) ==
    CASE w = "Dune"  -> "dune"
      [] w = "The"   -> "the"
      [] w = "True"  -> "true"
      [] w = "False" -> "false"
      [] OTHER       -> w

\* len() of one (lower-case) word
WordLen(w) ==
    CASE w \in {"0", "1", "2", "3", "9"} -> 1
      [] w \in {"the", "100"}            -> 3
      [] w \in {"dune", "text", "true"}  -> 4
      [] w \in {"world", "false"}        -> 5
      [] OTHER                           -> 6

stopwords == {"the", "a", "an", "and", "or", "but", "in", "on", "at", "to", "for"}

MinTermLen == 2

\* text.lower() and re.findall(r'\w+', text), word by word
LowerWords(text) == [i \in 1..Len(text) |-> LowerWord(text[i])]

KeepTerm(w) == w \notin stopwords /\ WordLen(w) > MinTermLen

\* _tokenize(text)
Tokenize(text) == SelectSeq(LowerWords(text), KeepTerm)

Range(s) == {s[i] : i \in 1..Len(s)}

Count(s, x) == Cardinality({i \in 1..Len(s) : s[i] = x})

----------------------------------------------------------------------------
(* Documents are functions from field names to values; their stored form   *)
(* is the JSON text json.dumps gives, a sequence of <<key, JSON value>>.   *)

FieldOrder == <<"id", "title", "flag">>

JsonValue(v) ==
    CASE v.t = "text" -> [j |-> "string", n |-> 0,   s |-> v.s]
      [] v.t = "num"  -> [j |-> "number", n |-> v.n, s |-> <<>>]
      [] OTHER        -> [j |-> IF v.n = 1 THEN "true" ELSE "false", n |-> 0, s |-> <<>>]

FromJsonValue(x) ==
    CASE x.j = "string" -> Text(x.s)
      [] x.j = "number" -> Num(x.n)
      [] x.j = "true"   -> Bool(TRUE)
      [] OTHER          -> Bool(FALSE)

\* json.dumps(doc)
JsonDumps(doc) ==
    LET keys == SelectSeq(FieldOrder, LAMBDA k : k \in DOMAIN doc)
    IN  [i \in 1..Len(keys) |-> <<keys[i], JsonValue(doc[keys[i]])>>]

\* json.loads(text)
JsonLoads(text) ==
    [k \in {text[i][1] : i \in 1..Len(text)} |->
        FromJsonValue(text[CHOOSE i \in 1..Len(text) : text[i][1] = k][2])]

EmptyStr == <<>>

\* str(doc.get(primary_key, ""))
DocId(doc, primary_key) ==
    IF primary_key \in DOMAIN doc THEN Str(doc[primary_key]) ELSE EmptyStr

\* dict.update
Merge(doc, partial_doc) ==
    [k \in DOMAIN doc \cup DOMAIN partial_doc |->
        IF k \in DOMAIN partial_doc THEN partial_doc[k] ELSE doc[k]]

----------------------------------------------------------------------------
(* Relations with a primary key are functions from the key.                *)

\* INSERT OR REPLACE of one row
Put(rel, key, row) ==
    [k \in DOMAIN rel \cup {key} |-> IF k = key THEN row ELSE rel[k]]

\* INSERT OR REPLACE of the rows of new
Overlay(rel, new) ==
    [k \in DOMAIN rel \cup DOMAIN new |-> IF k \in DOMAIN new THEN new[k] ELSE rel[k]]

\* DELETE of the rows whose key is in keys
Without(rel, keys) == [k \in DOMAIN rel \ keys |-> rel[k]]

None == <<>>
Some(x) == <<x>>

DefaultRankingRules == <<"typo", "words", "proximity", "attribute", "exactness">>

\* Index(uid=..., total_documents=0) with the dataclass defaults
NewIndex(uid, name, primary_key, t) ==
    [uid |-> uid, name |-> name, primary_key |-> primary_key,
     created_at |-> t, updated_at |-> t, total_documents |-> 0,
     facets |-> <<>>, ranking_rules |-> DefaultRankingRules,
     searchable_attrs |-> <<>>, filterable_attrs |-> <<>>, sortable_attrs |-> <<>>]

\* The database as one transaction sees it.
Db == [indexes |-> db_indexes, index_documents |-> index_documents,
       term_index |-> term_index]

\* Leaving `with sqlite3.connect(...) as conn`: commit, or roll back when the
\* block raised.
ConnExitNoRollback(committed, staged, raised) == staged

ConnExit(committed, staged, raised) == IF raised THEN committed ELSE staged

\* list(range(len(terms)))
Positions(terms) == [i \in 1..Len(terms) |-> i - 1]

\* the fields the loops of add_documents and _bm25_score do not skip
IndexedFields(doc, primary_key) == DOMAIN doc \ {primary_key}

\* The rows add_documents writes to term_index for one document.
DocPostings(index_uid, primary_key, doc) ==
    LET doc_id == DocId(doc, primary_key)
        keys == UNION {{<<index_uid, term, doc_id, field>> :
                            term \in Range(Tokenize(Str(doc[field])))} :
                       field \in IndexedFields(doc, primary_key)}
    IN  [k \in keys |-> Positions(Tokenize(Str(doc[k[4]])))]

\* as StoreDocument, with INSERT OR IGNORE for the raw document
StoreDocumentIgnore(conn, index_uid, primary_key, doc) ==
    [conn EXCEPT
        !.index_documents =
            IF <<index_uid, DocId(doc, primary_key)>> \in DOMAIN @ THEN @
            ELSE Put(@, <<index_uid, DocId(doc, primary_key)>>, JsonDumps(doc)),
        !.term_index = Overlay(@, DocPostings(index_uid, primary_key, doc))]

\* One pass of the loop body of add_documents, after the key check.
StoreDocument(conn, index_uid, primary_key, doc) ==
    [conn EXCEPT
        !.index_documents =
            Put(@, <<index_uid, DocId(doc, primary_key)>>, JsonDumps(doc)),
        !.term_index = Overlay(@, DocPostings(index_uid, primary_key, doc))]

RECURSIVE WriteDocuments(_, _, _, _, _)
\* The loop of add_documents from document i on; raised when a document has no id.
WriteDocuments(conn, index_uid, primary_key, documents, i) ==
    IF i > Len(documents)
    THEN [conn |-> conn, raised |-> FALSE]
    ELSE IF DocId(documents[i], primary_key) = EmptyStr
         THEN [conn |-> conn, raised |-> TRUE]
         ELSE WriteDocuments(StoreDocument(conn, index_uid, primary_key, documents[i]),
                             index_uid, primary_key, documents, i + 1)

\* doc_count = len(documents)
BatchCount(documents) == Len(documents)

\* add_documents(index_uid, documents): the registry, the database and the
\* error it leaves.
AddDocumentsResult(index_uid, documents) ==
    IF index_uid \notin DOMAIN indexes
    THEN [indexes |-> indexes, db |-> Db, err |-> "NotFound"]
    ELSE
      LET index == indexes[index_uid]
          loop == WriteDocuments(Db, index_uid, index.primary_key, documents, 1)
          total == index.total_documents + BatchCount(documents)
          staged == [loop.conn EXCEPT
                        !.indexes = [@ EXCEPT ![index_uid].total_documents = total,
                                              ![index_uid].updated_at = now]]
      IN  IF loop.raised
          THEN [indexes |-> indexes,
                db |-> ConnExit(Db, loop.conn, TRUE),
                err |-> "InvalidDocument"]
          ELSE [indexes |-> [indexes EXCEPT ![index_uid].total_documents = total,
                                            ![index_uid].updated_at = now],
                db |-> ConnExit(Db, staged, FALSE),
                err |-> "ok"]

\* update_document up to its call of add_documents: the merged document, or
\* the error raised before it.
MergedDocument(index_uid, doc_id, partial_doc) ==
    IF index_uid \notin DOMAIN indexes
    THEN [err |-> "NotFound", doc |-> None]
    ELSE IF <<index_uid, doc_id>> \notin DOMAIN index_documents
         THEN [err |-> "NotFound", doc |-> None]
         ELSE [err |-> "ok",
               doc |-> Some(Merge(JsonLoads(index_documents[<<index_uid, doc_id>>]),
                                  partial_doc))]

\* as PostingKeys, but only the rows of the terms the stored document has now
PostingKeysOfCurrent(rel, index_uid, doc_id) ==
    {k \in DOMAIN rel :
        /\ k[1] = index_uid /\ k[3] = doc_id
        /\ <<index_uid, doc_id>> \in DOMAIN index_documents
        /\ LET doc == JsonLoads(index_documents[<<index_uid, doc_id>>])
           IN  k[4] \in DOMAIN doc /\ k[2] \in Range(Tokenize(Str(doc[k[4]])))}

\* as PostingKeys, for a delete_document without its second DELETE
PostingKeysNone(rel, index_uid, doc_id) == {}

\* the rows of index_uid's document doc_id in term_index
PostingKeys(rel, index_uid, doc_id) ==
    {k \in DOMAIN rel : k[1] = index_uid /\ k[3] = doc_id}

Decrement(n) == n - 1

\* max(0, index.total_documents - 1)
DecrementFloored(n) == IF n - 1 > 0 THEN n - 1 ELSE 0

\* SELECT document FROM index_documents WHERE index_uid = ? AND doc_id = ?
\* and json.loads of the row, if any
SelectDocument(rel, index_uid, doc_id) ==
    IF <<index_uid, doc_id>> \in DOMAIN rel
    THEN Some(JsonLoads(rel[<<index_uid, doc_id>>]))
    ELSE None

\* what get_document returns for an index that exists
GetDocument(index_uid, doc_id) == SelectDocument(index_documents, index_uid, doc_id)

----------------------------------------------------------------------------
(* Search.  Scores are kept in fixed point: idf in thousandths (a table of *)
(* natural logarithms), each field's contribution weight * idf * bm25 in   *)
(* units of 1/ScoreUnit, truncated towards zero.  The sign of a            *)
(* contribution is exact.                                                  *)

K1Num == 3
K1Den == 2
BNum == 3
BDen == 4
ScoreUnit == 100

\* 1000 * ln(n), rounded
LnMilli(n) ==
    CASE n = 1 -> 0    [] n = 2 -> 693  [] n = 3 -> 1099 [] n = 4 -> 1386
      [] n = 5 -> 1609 [] n = 6 -> 1792 [] n = 7 -> 1946 [] n = 8 -> 2079
      [] OTHER -> 2197

Max(a, b) == IF a > b THEN a ELSE b
Min(a, b) == IF a < b THEN a ELSE b

\* SELECT COUNT(DISTINCT doc_id) FROM term_index WHERE index_uid = ? AND term = ?
DocFrequency(index_uid, term) ==
    Cardinality({k[3] : k \in {x \in DOMAIN term_index :
                                    x[1] = index_uid /\ x[2] = term}})

\* as IdfOf, smoothed: math.log(1 + n_docs / max(1, df))
IdfOfSmoothed(total_documents, df) ==
    LET n_docs == IF total_documents = 0 THEN 1 ELSE total_documents
    IN  LnMilli(n_docs + Max(1, df)) - LnMilli(Max(1, df))

\* math.log(n_docs / max(1, df)) with n_docs = total_documents or 1
IdfOf(total_documents, df) ==
    LET n_docs == IF total_documents = 0 THEN 1 ELSE total_documents
    IN  LnMilli(n_docs) - LnMilli(Max(1, df))

\* idf of a term, from the postings and the counter as they are now
Idf(index_uid, term) ==
    IdfOf(indexes[index_uid].total_documents, DocFrequency(index_uid, term))

\* field_weights.get(field, 1.0)
FieldWeight(field) ==
    CASE field = "title" -> 3 [] field = "description" -> 2 [] OTHER -> 1

\* (k1 + 1) * tf / (tf + k1 * (1 - b + b * field_len)) as a fraction
Bm25Num(tf) == (K1Num + K1Den) * BDen * tf
Bm25Den(tf, field_len) ==
    K1Den * BDen * tf + K1Num * (BDen - BNum + BNum * field_len)

Truncate(num, den) == IF num >= 0 THEN num \div den ELSE -((-num) \div den)

\* weight * idf * bm25 of one term in one field; 0 when tf = 0
FieldScoreWith(idf, term, field, value) ==
    LET terms_in_field == Tokenize(Str(value))
        tf == Count(terms_in_field, term)
    IN  IF tf > 0
        THEN Truncate(FieldWeight(field) * idf * Bm25Num(tf) * ScoreUnit,
                      Bm25Den(tf, Len(terms_in_field)))
        ELSE 0

FieldScore(index_uid, term, field, value) ==
    FieldScoreWith(Idf(index_uid, term), term, field, value)

RECURSIVE SumOver(_, _)
SumOver(S, f) ==
    IF S = {} THEN 0
    ELSE LET x == CHOOSE y \in S : TRUE IN f[x] + SumOver(S \ {x}, f)

\* as Bm25Score, with the term frequencies read from the postings of doc_id
\* instead of the document's current fields
Bm25ScoreFromPostings(index_uid, terms, doc_id, doc) ==
    LET keys == {k \in DOMAIN term_index : k[1] = index_uid /\ k[3] = doc_id}
        pairs == {p \in (1..Len(terms)) \X keys : p[2][2] = terms[p[1]]}
    IN  SumOver(pairs, [p \in pairs |->
            Truncate(FieldWeight(p[2][4]) * Idf(index_uid, p[2][2])
                        * Bm25Num(1) * ScoreUnit,
                     Bm25Den(1, Len(term_index[p[2]])))])

\* _bm25_score(index_uid, terms, doc_id, doc)
Bm25Score(index_uid, terms, doc_id, doc) ==
    LET fields == IndexedFields(doc, indexes[index_uid].primary_key)
        pairs == (1..Len(terms)) \X fields
    IN  SumOver(pairs, [p \in pairs |->
                            FieldScore(index_uid, terms[p[1]], p[2], doc[p[2]])])

\* _matches_filters(doc, filters); an expected value is [list, items], a
\* scalar being the one item of a non-list
MatchesFilters(doc, filters) ==
    \A field \in DOMAIN filters :
        /\ field \in DOMAIN doc
        /\ \E i \in 1..Len(filters[field].items) :
              PyEq(doc[field], filters[field].items[i])

Scalar(v) == [list |-> FALSE, items |-> <<v>>]
ListOf(vs) == [list |-> TRUE, items |-> vs]

\* the order in which the SELECT of search yields the rows of an index
RowOrder == <<<<"1">>, <<"2">>, <<"3">>>>

RowRank(doc_id) == CHOOSE i \in 1..Len(RowOrder) : RowOrder[i] = doc_id

\* documents = {r[0]: json.loads(r[1]) for r in rows}
Documents(index_uid) ==
    LET ids == {k[2] : k \in {x \in DOMAIN index_documents : x[1] = index_uid}}
    IN  [doc_id \in ids |-> JsonLoads(index_documents[<<index_uid, doc_id>>])]

\* as Scored, keeping a score of 0 too
ScoredNonNegative(index_uid, terms, documents) ==
    {doc_id \in DOMAIN documents :
        Bm25Score(index_uid, terms, doc_id, documents[doc_id]) >= 0}

\* the doc ids search keeps: score > 0
Scored(index_uid, terms, documents) ==
    {doc_id \in DOMAIN documents :
        Bm25Score(index_uid, terms, doc_id, documents[doc_id]) > 0}

\* as ApplyFilters, going over all documents instead of the scored ones
ApplyFiltersAll(ids, documents, filters) ==
    {doc_id \in DOMAIN documents : MatchesFilters(documents[doc_id], filters)}

\* _apply_filters, skipped when filters is empty
ApplyFilters(ids, documents, filters) ==
    {doc_id \in ids : MatchesFilters(documents[doc_id], filters)}

\* sorted(scores.items(), key=score, reverse=True): stable, so ties keep row order
SortedByScore(sc, ids) ==
    LET before(x, y) == sc[x] > sc[y] \/ (sc[x] = sc[y] /\ RowRank(x) < RowRank(y))
    IN  [i \in 1..Cardinality(ids) |->
            CHOOSE x \in ids : Cardinality({y \in ids : before(y, x)}) = i - 1]

SortedDocs(index_uid, terms, documents, ids) ==
    SortedByScore([d \in ids |-> Bm25Score(index_uid, terms, d, documents[d])], ids)

\* limit: int = 20
DefaultLimit == 20

\* s[start:stop]: a negative bound counts from the end
PySlice(s, start, stop) ==
    LET norm(i) == IF i < 0 THEN Max(i + Len(s), 0) ELSE Min(i, Len(s))
        lo == norm(start)
        hi == norm(stop)
    IN  [i \in 1..(IF hi > lo THEN hi - lo ELSE 0) |-> s[lo + i]]

\* _compute_facets(documents, facets)
ComputeFacets(documents, facets) ==
    [facet \in Range(facets) |->
        LET have == {d \in DOMAIN documents : facet \in DOMAIN documents[d]}
            values == {Str(documents[d][facet]) : d \in have}
        IN  [v \in values |->
                Cardinality({d \in have : Str(documents[d][facet]) = v})]]

\* as Search, with total taken after pagination
SearchTotalOfPage(index_uid, query, filters, facets, sort, limit, offset) ==
    LET documents == Documents(index_uid)
        terms == Tokenize(query)
        scores == Scored(index_uid, terms, documents)
        kept == IF DOMAIN filters # {}
                THEN ApplyFilters(scores, documents, filters) ELSE scores
        sorted_docs == SortedDocs(index_uid, terms, documents, kept)
        hits_ids == PySlice(sorted_docs, offset, offset + limit)
    IN  [index_uid |-> index_uid, query |-> query,
         hits |-> [i \in 1..Len(hits_ids) |-> documents[hits_ids[i]]],
         total |-> Len(hits_ids),
         facet_distribution |-> IF facets # <<>>
                                THEN ComputeFacets(documents, facets) ELSE <<>>]

\* as Search, with the facets computed over the documents that matched
SearchFacetsOfKept(index_uid, query, filters, facets, sort, limit, offset) ==
    LET documents == Documents(index_uid)
        terms == Tokenize(query)
        scores == Scored(index_uid, terms, documents)
        kept == IF DOMAIN filters # {}
                THEN ApplyFilters(scores, documents, filters) ELSE scores
        sorted_docs == SortedDocs(index_uid, terms, documents, kept)
        hits_ids == PySlice(sorted_docs, offset, offset + limit)
    IN  [index_uid |-> index_uid, query |-> query,
         hits |-> [i \in 1..Len(hits_ids) |-> documents[hits_ids[i]]],
         total |-> Len(sorted_docs),
         facet_distribution |->
            IF facets # <<>>
            THEN ComputeFacets([d \in kept |-> documents[d]], facets) ELSE <<>>]

\* search(index_uid, query, filters, facets, sort, limit, offset), index present
Search(index_uid, query, filters, facets, sort, limit, offset) ==
    LET documents == Documents(index_uid)
        terms == Tokenize(query)
        scores == Scored(index_uid, terms, documents)
        kept == IF DOMAIN filters # {}
                THEN ApplyFilters(scores, documents, filters) ELSE scores
        sorted_docs == SortedDocs(index_uid, terms, documents, kept)
        hits_ids == PySlice(sorted_docs, offset, offset + limit)
    IN  [index_uid |-> index_uid, query |-> query,
         hits |-> [i \in 1..Len(hits_ids) |-> documents[hits_ids[i]]],
         total |-> Len(sorted_docs),
         facet_distribution |-> IF facets # <<>>
                                THEN ComputeFacets(documents, facets) ELSE <<>>]

\* q.get(key, default) of a query object
QueryGet(q, key, default) == IF key \in DOMAIN q THEN q[key] ELSE default

\* q.get("index_uid") of a query object without the key
NoneUid == "<None>"

\* the call of search multi_search makes for one query object
SearchOfQuery(q) ==
    Search(QueryGet(q, "index_uid", NoneUid), QueryGet(q, "query", EmptyStr),
           QueryGet(q, "filters", <<>>), QueryGet(q, "facets", <<>>),
           QueryGet(q, "sort", <<>>), QueryGet(q, "limit", DefaultLimit),
           QueryGet(q, "offset", 0))

RECURSIVE MultiSearchDistinctFrom(_, _, _)
\* as MultiSearchFrom, skipping a query object equal to an earlier one
MultiSearchDistinctFrom(queries, i, results) ==
    IF i > Len(queries) THEN [err |-> "ok", val |-> results]
    ELSE IF QueryGet(queries[i], "index_uid", NoneUid) \notin DOMAIN indexes
         THEN [err |-> "NotFound", val |-> <<>>]
         ELSE MultiSearchDistinctFrom(queries, i + 1,
                  IF \E j \in 1..(i - 1) : queries[j] = queries[i]
                  THEN results ELSE Append(results, SearchOfQuery(queries[i])))

RECURSIVE MultiSearchFrom(_, _, _)
\* the loop of multi_search from query i on; search raises when the index
\* is absent, and nothing is returned then
MultiSearchFrom(queries, i, results) ==
    IF i > Len(queries) THEN [err |-> "ok", val |-> results]
    ELSE IF QueryGet(queries[i], "index_uid", NoneUid) \notin DOMAIN indexes
         THEN [err |-> "NotFound", val |-> <<>>]
         ELSE MultiSearchFrom(queries, i + 1, Append(results, SearchOfQuery(queries[i])))

\* multi_search(queries)
MultiSearch(queries) == MultiSearchFrom(queries, 1, <<>>)

----------------------------------------------------------------------------
(* Inputs.                                                                 *)

MaxTotal == 3

T1 == <<"Dune", "world">>
T2 == <<"The", "text">>

Id(w) == Text(<<w>>)

d1a == [id |-> Id("1"), title |-> Text(T1)]
d1b == [id |-> Id("1"), title |-> Text(T2)]
dn1 == [id |-> Num(1), title |-> Text(T1)]
d2a == [id |-> Id("2"), title |-> Text(T1)]
d3b == [id |-> Id("3"), title |-> Text(T2)]
dnokey == [title |-> Text(T1)]
dempty == [id |-> Text(EmptyStr), title |-> Text(T2)]

\* "" stands for an omitted name
CreateInputs == {<<"books", "id", "">>}

AddInputs ==
    {<<"books", b>> : b \in {<<>>, <<d1a>>, <<d1b>>, <<dn1>>, <<d2a>>, <<d3b>>,
                             <<d1a, d2a, d3b>>, <<d1a, dn1>>, <<d1a, dnokey>>,
                             <<d2a, dempty, d3b>>}}

UpdateInputs ==
    {<<"books", <<"2">>, p>> : p \in {[title |-> Text(T2)], [id |-> Id("3")],
                                      [id |-> Text(EmptyStr)]}}

DocKeys == {<<"books", <<i>>>> : i \in {"1", "2", "3"}}

CreateInputsTwo == {<<"books", "id", "">>, <<"films", "id", "">>}

AddInputsTwo ==
    {<<"books", <<d1a>>>>, <<"books", <<d1b>>>>, <<"books", <<d2a>>>>,
     <<"films", <<d1b>>>>}

DocKeysTwo == {<<"books", <<"1">>>>, <<"books", <<"2">>>>, <<"films", <<"1">>>>}

NoFilters == <<>>
NoFacets == <<>>
NoSort == <<>>

IdFilter == [id |-> ListOf(<<Id("1"), Id("3")>>)]

\* <<limit, offset>>
Pages == {<<20, 0>>, <<1, 0>>, <<1, 1>>, <<20, 3>>, <<-1, 0>>, <<2, -1>>}

SearchInputs ==
    {<<"books", q, f, NoFacets, NoSort, pg[1], pg[2]>> :
        q \in {<<"Dune">>, <<"text">>}, f \in {NoFilters, IdFilter}, pg \in Pages}

\* Documents with a facet field.
f1 == [id |-> Id("1"), title |-> Text(T1), flag |-> Bool(TRUE)]
f1n == [id |-> Id("1"), title |-> Text(T2), flag |-> Num(1)]
f2 == [id |-> Id("2"), title |-> Text(T2), flag |-> Num(1)]
f3 == [id |-> Id("3"), title |-> Text(T1)]

AddInputsFacet ==
    {<<"books", b>> : b \in {<<f1>>, <<f1n>>, <<f2>>, <<f3>>, <<f1, f2, f3>>}}

DocKeysFacet == {<<"books", <<"1">>>>, <<"books", <<"2">>>>}

FlagFilter == [flag |-> Scalar(Num(1))]

FacetLists == {NoFacets, <<"flag">>, <<"title", "flag">>}

SearchInputsFacet ==
    {<<"books", q, f, fc, NoSort, pg[1], pg[2]>> :
        q \in {<<"Dune">>, <<"text">>}, f \in {NoFilters, FlagFilter},
        fc \in FacetLists, pg \in {<<20, 0>>, <<1, 1>>}}

----------------------------------------------------------------------------
(* History: what the calls so far wrote, and how each index was built.     *)

RECURSIVE WrittenAfter(_, _, _, _, _)
WrittenAfter(w, index_uid, primary_key, documents, i) ==
    IF i > Len(documents) THEN w
    ELSE WrittenAfter(Put(w, <<index_uid, DocId(documents[i], primary_key)>>, documents[i]),
                      index_uid, primary_key, documents, i + 1)

\* all ids of the batch differ from each other and from those written so far
FreshIds(index_uid, primary_key, documents) ==
    /\ \A i, j \in 1..Len(documents) :
          i # j => DocId(documents[i], primary_key) # DocId(documents[j], primary_key)
    /\ \A i \in 1..Len(documents) :
          <<index_uid, DocId(documents[i], primary_key)>> \notin DOMAIN written

----------------------------------------------------------------------------
(* Threads calling one engine.  A call's arguments and local variables:    *)

Threads == {1, 2}

NoCall ==
    [op |-> "none", index_uid |-> "", doc_id |-> EmptyStr, partial_doc |-> <<>>,
     documents |-> <<>>, query |-> <<>>, staged |-> <<>>, tmp |-> 0,
     docs |-> <<>>, todo |-> <<>>, ti |-> 1, df |-> 0, acc |-> 0, scores |-> <<>>,
     obs |-> {}, err |-> "", val |-> None]

----------------------------------------------------------------------------
(* The calls.                                                              *)

Init ==
    /\ indexes = <<>>
    /\ db_indexes = <<>>
    /\ index_documents = <<>>
    /\ term_index = <<>>
    /\ now = 0
    /\ ret = [op |-> "init", err |-> "ok"]
    /\ written = <<>>
    /\ phase = <<>>
    /\ probe = <<>>
    /\ pc = [t \in Threads |-> "idle"]
    /\ local = [t \in Threads |-> NoCall]
    /\ hist = [snaps |-> {}, start |-> <<>>]

\* _load_indexes(): the registry a fresh engine builds from the rows of the
\* relation indexes, column by column; a list column holds the dumped list,
\* which json.loads gives back
LoadIndexes ==
    [u \in DOMAIN db_indexes |->
        LET row == db_indexes[u] IN
        [uid |-> row.uid, name |-> row.name, primary_key |-> row.primary_key,
         created_at |-> row.created_at, updated_at |-> row.updated_at,
         total_documents |-> row.total_documents,
         facets |-> row.facets, ranking_rules |-> row.ranking_rules,
         searchable_attrs |-> row.searchable_attrs,
         filterable_attrs |-> row.filterable_attrs,
         sortable_attrs |-> row.sortable_attrs]]

\* as CreateError, for a relation without UNIQUE on name
CreateErrorUidOnly(uid, name) ==
    IF uid \in DOMAIN indexes THEN "AlreadyExists" ELSE "ok"

\* how create_index ends: the check `uid in self.indexes`, then the INSERT
\* into a relation whose column name is UNIQUE
CreateError(uid, name) ==
    IF uid \in DOMAIN indexes THEN "AlreadyExists"
    ELSE IF \E u \in DOMAIN db_indexes : db_indexes[u].name = name
         THEN "IntegrityError" ELSE "ok"

\* create_index(uid, primary_key, name)
CreateIndex(uid, primary_key, name) ==
    LET given == IF name = "" THEN uid ELSE name
        err == CreateError(uid, given)
        index == NewIndex(uid, given, primary_key, now)
    IN
    /\ ret' = [op |-> "create_index", err |-> err, uid |-> uid,
               primary_key |-> primary_key, name |-> name]
    /\ IF err = "ok"
       THEN /\ db_indexes' = Put(db_indexes, uid, index)
            /\ indexes' = Put(indexes, uid, index)
            /\ phase' = Put(phase, uid, "adding")
       ELSE UNCHANGED <<db_indexes, indexes, phase>>
    /\ UNCHANGED <<index_documents, term_index, now, written, probe, pc, local, hist>>

\* add_documents(index_uid, documents)
AddDocuments(index_uid, documents) ==
    LET r == AddDocumentsResult(index_uid, documents) IN
    /\ index_uid \in DOMAIN indexes =>
          indexes[index_uid].total_documents + Len(documents) <= MaxTotal
    /\ ret' = [op |-> "add_documents", err |-> r.err, index_uid |-> index_uid,
               documents |-> documents]
    /\ indexes' = r.indexes
    /\ db_indexes' = r.db.indexes
    /\ index_documents' = r.db.index_documents
    /\ term_index' = r.db.term_index
    /\ IF r.err = "ok"
       THEN LET pk == indexes[index_uid].primary_key IN
            /\ written' = WrittenAfter(written, index_uid, pk, documents, 1)
            /\ phase' = [phase EXCEPT ![index_uid] =
                            IF @ = "adding" /\ FreshIds(index_uid, pk, documents)
                            THEN "adding" ELSE "other"]
       ELSE UNCHANGED <<written, phase>>
    /\ UNCHANGED <<now, probe, pc, local, hist>>

\* update_document(index_uid, doc_id, partial_doc)
UpdateDocument(index_uid, doc_id, partial_doc) ==
    LET m == MergedDocument(index_uid, doc_id, partial_doc)
        r == IF m.err = "ok"
             THEN AddDocumentsResult(index_uid, m.doc)
             ELSE [indexes |-> indexes, db |-> Db, err |-> m.err]
    IN
    /\ index_uid \in DOMAIN indexes =>
          indexes[index_uid].total_documents + 1 <= MaxTotal
    /\ ret' = [op |-> "update_document", err |-> r.err, index_uid |-> index_uid,
               doc_id |-> doc_id, partial_doc |-> partial_doc]
    /\ indexes' = r.indexes
    /\ db_indexes' = r.db.indexes
    /\ index_documents' = r.db.index_documents
    /\ term_index' = r.db.term_index
    /\ IF r.err = "ok"
       THEN /\ written' = WrittenAfter(written, index_uid,
                                       indexes[index_uid].primary_key, m.doc, 1)
            /\ phase' = [phase EXCEPT ![index_uid] = "other"]
       ELSE UNCHANGED <<written, phase>>
    /\ UNCHANGED <<now, probe, pc, local, hist>>

\* delete_document(index_uid, doc_id)
DeleteDocument(index_uid, doc_id) ==
    IF index_uid \notin DOMAIN indexes
    THEN /\ ret' = [op |-> "delete_document", err |-> "NotFound",
                    index_uid |-> index_uid, doc_id |-> doc_id]
         /\ UNCHANGED <<indexes, db_indexes, index_documents, term_index, now,
                        written, phase, probe, pc, local, hist>>
    ELSE /\ ret' = [op |-> "delete_document", err |-> "ok",
                    index_uid |-> index_uid, doc_id |-> doc_id]
         /\ index_documents' = Without(index_documents, {<<index_uid, doc_id>>})
         /\ term_index' = Without(term_index, PostingKeys(term_index, index_uid, doc_id))
         /\ indexes' = [indexes EXCEPT
                           ![index_uid].total_documents = DecrementFloored(@),
                           ![index_uid].updated_at = now]
         /\ written' = Without(written, {<<index_uid, doc_id>>})
         /\ phase' = [phase EXCEPT ![index_uid] =
                         IF @ \in {"adding", "deleting"}
                            /\ <<index_uid, doc_id>> \in DOMAIN written
                         THEN "deleting" ELSE "other"]
         /\ UNCHANGED <<db_indexes, now, probe, pc, local, hist>>

\* get_document(index_uid, doc_id)
GetDocumentCall(index_uid, doc_id) ==
    /\ ret' = IF index_uid \in DOMAIN indexes
              THEN [op |-> "get_document", err |-> "ok", index_uid |-> index_uid,
                    doc_id |-> doc_id, val |-> GetDocument(index_uid, doc_id)]
              ELSE [op |-> "get_document", err |-> "NotFound", index_uid |-> index_uid,
                    doc_id |-> doc_id, val |-> None]
    /\ UNCHANGED <<indexes, db_indexes, index_documents, term_index, now,
                   written, phase, probe, pc, local, hist>>

\* search(index_uid, query, filters, facets, sort, limit, offset)
SearchCall(index_uid, query, filters, facets, sort, limit, offset) ==
    /\ ret' = [op |-> "search",
               err |-> IF index_uid \in DOMAIN indexes THEN "ok" ELSE "NotFound",
               index_uid |-> index_uid, query |-> query, filters |-> filters,
               facets |-> facets, sort |-> sort, limit |-> limit, offset |-> offset,
               val |-> IF index_uid \in DOMAIN indexes
                       THEN Some(Search(index_uid, query, filters, facets, sort,
                                        limit, offset))
                       ELSE None]
    /\ UNCHANGED <<indexes, db_indexes, index_documents, term_index, now,
                   written, phase, probe, pc, local, hist>>

\* set_searchable_attrs(index_uid, attrs)
SetSearchableAttrs(index_uid, attrs) ==
    /\ ret' = [op |-> "set_searchable_attrs",
               err |-> IF index_uid \in DOMAIN indexes THEN "ok" ELSE "NotFound",
               index_uid |-> index_uid, attrs |-> attrs]
    /\ IF index_uid \in DOMAIN indexes
       THEN /\ indexes' = [indexes EXCEPT ![index_uid].searchable_attrs = attrs]
            /\ db_indexes' = [db_indexes EXCEPT ![index_uid].searchable_attrs = attrs]
       ELSE UNCHANGED <<indexes, db_indexes>>
    /\ UNCHANGED <<index_documents, term_index, now, written, phase, probe, pc, local, hist>>

\* set_filterable_attrs(index_uid, attrs)
SetFilterableAttrs(index_uid, attrs) ==
    /\ ret' = [op |-> "set_filterable_attrs",
               err |-> IF index_uid \in DOMAIN indexes THEN "ok" ELSE "NotFound",
               index_uid |-> index_uid, attrs |-> attrs]
    /\ IF index_uid \in DOMAIN indexes
       THEN /\ indexes' = [indexes EXCEPT ![index_uid].filterable_attrs = attrs]
            /\ db_indexes' = [db_indexes EXCEPT ![index_uid].filterable_attrs = attrs]
       ELSE UNCHANGED <<indexes, db_indexes>>
    /\ UNCHANGED <<index_documents, term_index, now, written, phase, probe, pc, local, hist>>

\* set_sortable_attrs(index_uid, attrs)
SetSortableAttrs(index_uid, attrs) ==
    /\ ret' = [op |-> "set_sortable_attrs",
               err |-> IF index_uid \in DOMAIN indexes THEN "ok" ELSE "NotFound",
               index_uid |-> index_uid, attrs |-> attrs]
    /\ IF index_uid \in DOMAIN indexes
       THEN /\ indexes' = [indexes EXCEPT ![index_uid].sortable_attrs = attrs]
            /\ db_indexes' = [db_indexes EXCEPT ![index_uid].sortable_attrs = attrs]
       ELSE UNCHANGED <<indexes, db_indexes>>
    /\ UNCHANGED <<index_documents, term_index, now, written, phase, probe, pc, local, hist>>

MaxNow == 1

\* time passes between two calls: datetime.utcnow() gives a later reading
Tick ==
    /\ now < MaxNow
    /\ now' = now + 1
    /\ UNCHANGED <<indexes, db_indexes, index_documents, term_index, ret,
                   written, phase, probe, pc, local, hist>>

\* multi_search(queries)
MultiSearchCall(queries) ==
    /\ ret' = [op |-> "multi_search", err |-> MultiSearch(queries).err,
               queries |-> queries, val |-> MultiSearch(queries).val]
    /\ UNCHANGED <<indexes, db_indexes, index_documents, term_index, now,
                   written, phase, probe, pc, local, hist>>

Next ==
    \/ \E c \in CreateInputs : CreateIndex(c[1], c[2], c[3])
    \/ \E a \in AddInputs : AddDocuments(a[1], a[2])
    \/ \E u \in UpdateInputs : UpdateDocument(u[1], u[2], u[3])
    \/ \E k \in DocKeys : DeleteDocument(k[1], k[2])
    \/ \E k \in DocKeys : GetDocumentCall(k[1], k[2])
    \/ \E q \in SearchInputs : SearchCall(q[1], q[2], q[3], q[4], q[5], q[6], q[7])

Spec == Init /\ [][Next]_vars

\* _matches_filters called on its own.
FilterValues ==
    {Text(<<"1">>), Text(<<"True">>), Num(1), Num(0), Bool(TRUE), Bool(FALSE)}

FilterDocs ==
    {[flag |-> v] : v \in FilterValues}
    \cup {[flag |-> v, title |-> Text(T1)] : v \in {Num(1), Bool(TRUE)}}
    \cup {[title |-> Text(T1)]}

FilterSets ==
    {[flag |-> Scalar(v)] : v \in FilterValues}
    \cup {[flag |-> ListOf(<<v, Text(<<"1">>)>>)] : v \in {Num(0), Bool(TRUE)}}
    \cup {[flag |-> Scalar(v), title |-> Scalar(Text(w))] :
              v \in {Num(1), Bool(TRUE)}, w \in {T1, T2}}
    \cup {NoFilters}

InitFilter ==
    /\ indexes = <<>>
    /\ db_indexes = <<>>
    /\ index_documents = <<>>
    /\ term_index = <<>>
    /\ now = 0
    /\ ret = [op |-> "init", err |-> "ok"]
    /\ written = <<>>
    /\ phase = <<>>
    /\ probe \in {[doc |-> d, filters |-> f] : d \in FilterDocs, f \in FilterSets}
    /\ pc = [t \in Threads |-> "idle"]
    /\ local = [t \in Threads |-> NoCall]
    /\ hist = [snaps |-> {}, start |-> <<>>]

\* _matches_filters(doc, filters)
MatchesFiltersCall ==
    /\ ret' = [op |-> "_matches_filters", err |-> "ok",
               val |-> MatchesFilters(probe.doc, probe.filters)]
    /\ UNCHANGED <<indexes, db_indexes, index_documents, term_index, now,
                   written, phase, probe, pc, local, hist>>

NextFilter == MatchesFiltersCall

SpecFilter == InitFilter /\ [][NextFilter]_vars

\* Two indexes side by side.
NextTwo ==
    \/ \E c \in CreateInputsTwo : CreateIndex(c[1], c[2], c[3])
    \/ \E a \in AddInputsTwo : AddDocuments(a[1], a[2])
    \/ \E k \in DocKeysTwo : DeleteDocument(k[1], k[2])
    \/ \E k \in DocKeysTwo : GetDocumentCall(k[1], k[2])

SpecTwo == Init /\ [][NextTwo]_vars

\* Searches over several indexes in one call.
qa == [index_uid |-> "books", query |-> <<"Dune">>]
qb == [index_uid |-> "films", query |-> <<"text">>, limit |-> 1]
qc == [index_uid |-> "books"]
qd == [index_uid |-> "music", query |-> <<"Dune">>]
qe == [query |-> <<"Dune">>]

MultiInputs ==
    {<<>>, <<qa>>, <<qa, qb>>, <<qb, qa>>, <<qa, qa>>, <<qa, qb, qc>>,
     <<qa, qd, qb>>, <<qe>>}

AddInputsMulti == AddInputsTwo \cup {<<"films", <<d2a>>>>}

NextMulti ==
    \/ \E c \in CreateInputsTwo : CreateIndex(c[1], c[2], c[3])
    \/ \E a \in AddInputsMulti : AddDocuments(a[1], a[2])
    \/ \E qs \in MultiInputs : MultiSearchCall(qs)

SpecMulti == Init /\ [][NextMulti]_vars

\* The catalog: indexes created under given and defaulted names.
CreateInputsCatalog ==
    {<<u, "id", n>> : u \in {"books", "films"}, n \in {"", "books", "Library"}}

NextCatalog ==
    \/ \E c \in CreateInputsCatalog : CreateIndex(c[1], c[2], c[3])
    \/ \E a \in AddInputsTwo : AddDocuments(a[1], a[2])
    \/ \E k \in DocKeysTwo : GetDocumentCall(k[1], k[2])

SpecCatalog == Init /\ [][NextCatalog]_vars

\* The attribute setters, with a clock.
AttrLists == {<<"title">>, <<"title", "flag">>}

AttrInputs == {<<u, a>> : u \in {"books", "films"}, a \in AttrLists}

NextAttrs ==
    \/ \E c \in CreateInputs : CreateIndex(c[1], c[2], c[3])
    \/ AddDocuments("books", <<d1a>>)
    \/ Tick
    \/ \E x \in AttrInputs : SetSearchableAttrs(x[1], x[2])
    \/ \E x \in AttrInputs : SetFilterableAttrs(x[1], x[2])
    \/ \E x \in AttrInputs : SetSortableAttrs(x[1], x[2])

SpecAttrs == Init /\ [][NextAttrs]_vars

\* Searches that ask for facets.
NextFacet ==
    \/ \E c \in CreateInputs : CreateIndex(c[1], c[2], c[3])
    \/ \E a \in AddInputsFacet : AddDocuments(a[1], a[2])
    \/ \E k \in DocKeysFacet : DeleteDocument(k[1], k[2])
    \/ \E q \in SearchInputsFacet : SearchCall(q[1], q[2], q[3], q[4], q[5], q[6], q[7])

SpecFacet == Init /\ [][NextFacet]_vars

----------------------------------------------------------------------------
(* Calls made by threads of one process on one engine.  Every call opens   *)
(* its own connection; a step is what a thread does between two places     *)
(* where another thread can run.  An open write transaction is not seen by *)
(* other connections before its commit, and a second write transaction     *)
(* waits for the first to end.                                             *)

\* the calls the threads make, one each
ThreadCalls ==
    {[NoCall EXCEPT !.op = "search", !.index_uid = "books", !.query = <<"Dune">>],
     [NoCall EXCEPT !.op = "update_document", !.index_uid = "books",
                    !.doc_id = <<"1">>, !.partial_doc = [title |-> Text(T2)]],
     [NoCall EXCEPT !.op = "update_document", !.index_uid = "books",
                    !.doc_id = <<"1">>, !.partial_doc = [flag |-> Bool(TRUE)]],
     [NoCall EXCEPT !.op = "delete_document", !.index_uid = "books", !.doc_id = <<"1">>],
     [NoCall EXCEPT !.op = "add_documents", !.index_uid = "books", !.documents = <<d3b>>]}

AddInputsThreads == {<<"books", <<d1a, d2a>>>>, <<"books", <<d1a>>>>}

FirstPlace(op) ==
    CASE op = "search" -> "srch" [] op = "update_document" -> "upd"
      [] op = "delete_document" -> "del" [] OTHER -> "add"

\* thread t is inside `with sqlite3.connect(...) as conn` of add_documents,
\* after its first write
Held(t) == pc[t] \in {"add_count", "add_store", "add_commit"}

LockFree(t) == \A u \in Threads \ {t} : ~ Held(u)

\* some write has made one of its two effects (database, counter) only
Partial(p) == \E t \in Threads : p[t] \in {"add_commit", "del_count", "del_store"}

\* what a search can read of the state: documents, document frequencies, counters
Snapshot ==
    [docs |-> [u \in DOMAIN indexes |-> Documents(u)],
     df |-> [k \in {<<x[1], x[2]>> : x \in DOMAIN term_index} |->
                DocFrequency(k[1], k[2])],
     n |-> [u \in DOMAIN indexes |-> indexes[u].total_documents]]

\* history: keep the state reached when no write is half done
Seen ==
    hist' = [hist EXCEPT !.snaps = IF Partial(pc') THEN @ ELSE @ \cup {Snapshot'}]

Goto(t, place) == pc' = [pc EXCEPT ![t] = place]

Done(t, l, err, val) ==
    /\ pc' = [pc EXCEPT ![t] = "done"]
    /\ local' = [local EXCEPT ![t] = [l EXCEPT !.err = err, !.val = val]]

\* a thread enters a call: the check `index_uid not in self.indexes`
ThreadCall(t, c) ==
    /\ pc[t] = "idle"
    /\ IF c.index_uid \in DOMAIN indexes
       THEN Goto(t, FirstPlace(c.op)) /\ local' = [local EXCEPT ![t] = c]
       ELSE Done(t, c, "NotFound", None)
    /\ hist' = [snaps |-> IF Partial(pc) THEN hist.snaps ELSE hist.snaps \cup {Snapshot},
                start |-> IF \A u \in Threads : pc[u] = "idle"
                          THEN [u \in DOMAIN indexes |-> indexes[u].total_documents]
                          ELSE hist.start]
    /\ UNCHANGED <<indexes, db_indexes, index_documents, term_index, now, ret,
                   written, phase, probe>>

\* update_document: the SELECT of the stored document and the merge
UpdateRead(t) ==
    LET l == local[t]
        m == MergedDocument(l.index_uid, l.doc_id, l.partial_doc)
    IN
    /\ pc[t] = "upd"
    /\ IF m.err = "ok"
       THEN Goto(t, "add") /\ local' = [local EXCEPT ![t].documents = m.doc]
       ELSE Done(t, l, m.err, None)
    /\ UNCHANGED <<indexes, db_indexes, index_documents, term_index, now, ret,
                   written, phase, probe>>
    /\ Seen

\* add_documents: the loop over the documents inside the transaction
AddTransaction(t) ==
    LET l == local[t]
        loop == WriteDocuments(Db, l.index_uid, indexes[l.index_uid].primary_key,
                               l.documents, 1)
    IN
    /\ pc[t] = "add"
    /\ LockFree(t)
    /\ IF loop.raised
       THEN Done(t, l, "InvalidDocument", None)
       ELSE Goto(t, "add_count") /\ local' = [local EXCEPT ![t].staged = loop.conn]
    /\ UNCHANGED <<indexes, db_indexes, index_documents, term_index, now, ret,
                   written, phase, probe>>
    /\ Seen

\* index.total_documents += doc_count: the read
AddCountRead(t) ==
    /\ pc[t] = "add_count"
    /\ Goto(t, "add_store")
    /\ local' = [local EXCEPT ![t].tmp = indexes[local[t].index_uid].total_documents]
    /\ UNCHANGED <<indexes, db_indexes, index_documents, term_index, now, ret,
                   written, phase, probe>>
    /\ Seen

\* index.total_documents += doc_count: the store; index.updated_at
AddCountStore(t) ==
    LET l == local[t] IN
    /\ pc[t] = "add_store"
    /\ Goto(t, "add_commit")
    /\ indexes' = [indexes EXCEPT
                      ![l.index_uid].total_documents = l.tmp + BatchCount(l.documents),
                      ![l.index_uid].updated_at = now]
    /\ UNCHANGED <<local, db_indexes, index_documents, term_index, now, ret,
                   written, phase, probe>>
    /\ Seen

\* add_documents: the UPDATE of the indexes row and the commit
AddCommit(t) ==
    LET l == local[t]
        index == indexes[l.index_uid]
        staged == [l.staged EXCEPT
                      !.indexes = [@ EXCEPT
                          ![l.index_uid].total_documents = index.total_documents,
                          ![l.index_uid].updated_at = index.updated_at]]
        db == ConnExit(Db, staged, FALSE)
    IN
    /\ pc[t] = "add_commit"
    /\ Done(t, l, "ok", None)
    /\ db_indexes' = db.indexes
    /\ index_documents' = db.index_documents
    /\ term_index' = db.term_index
    /\ written' = WrittenAfter(written, l.index_uid, index.primary_key, l.documents, 1)
    /\ phase' = [phase EXCEPT ![l.index_uid] = "other"]
    /\ UNCHANGED <<indexes, now, ret, probe>>
    /\ Seen

\* delete_document: the two DELETEs and the commit
DeleteTransaction(t) ==
    LET l == local[t] IN
    /\ pc[t] = "del"
    /\ LockFree(t)
    /\ Goto(t, "del_count")
    /\ index_documents' = Without(index_documents, {<<l.index_uid, l.doc_id>>})
    /\ term_index' = Without(term_index, PostingKeys(term_index, l.index_uid, l.doc_id))
    /\ written' = Without(written, {<<l.index_uid, l.doc_id>>})
    /\ phase' = [phase EXCEPT ![l.index_uid] = "other"]
    /\ UNCHANGED <<local, indexes, db_indexes, now, ret, probe>>
    /\ Seen

\* index.total_documents = max(0, index.total_documents - 1): the read
DeleteCountRead(t) ==
    /\ pc[t] = "del_count"
    /\ Goto(t, "del_store")
    /\ local' = [local EXCEPT ![t].tmp = indexes[local[t].index_uid].total_documents]
    /\ UNCHANGED <<indexes, db_indexes, index_documents, term_index, now, ret,
                   written, phase, probe>>
    /\ Seen

\* index.total_documents = max(0, index.total_documents - 1): the store;
\* index.updated_at
DeleteCountStore(t) ==
    LET l == local[t] IN
    /\ pc[t] = "del_store"
    /\ Done(t, l, "ok", None)
    /\ indexes' = [indexes EXCEPT
                      ![l.index_uid].total_documents = DecrementFloored(l.tmp),
                      ![l.index_uid].updated_at = now]
    /\ UNCHANGED <<db_indexes, index_documents, term_index, now, ret,
                   written, phase, probe>>
    /\ Seen

\* the doc ids of a dict of documents in the order of its rows
RowSeq(documents) == SelectSeq(RowOrder, LAMBDA d : d \in DOMAIN documents)

\* search: the SELECT of all documents of the index and the tokenized query
SearchRead(t) ==
    LET l == local[t]
        documents == Documents(l.index_uid)
        none == RowSeq(documents) = <<>> \/ Tokenize(l.query) = <<>>
    IN
    /\ pc[t] = "srch"
    /\ Goto(t, IF none THEN "finish" ELSE "score_df")
    /\ local' = [local EXCEPT ![t] =
                    [l EXCEPT !.docs = documents,
                              !.todo = IF none THEN <<>> ELSE RowSeq(documents),
                              !.scores = [d \in DOMAIN documents |-> 0]]]
    /\ UNCHANGED <<indexes, db_indexes, index_documents, term_index, now, ret,
                   written, phase, probe>>
    /\ Seen

\* _bm25_score: the SELECT COUNT(DISTINCT doc_id) of one term
ScoreReadDf(t) ==
    LET l == local[t] IN
    /\ pc[t] = "score_df"
    /\ Goto(t, "score_n")
    /\ local' = [local EXCEPT ![t].df = DocFrequency(l.index_uid, Tokenize(l.query)[l.ti])]
    /\ UNCHANGED <<indexes, db_indexes, index_documents, term_index, now, ret,
                   written, phase, probe>>
    /\ Seen

\* _bm25_score: the read of total_documents, idf and the loop over the fields
\* for one term; after the last term, the score of the document
ScoreReadTotal(t) ==
    LET l == local[t]
        terms == Tokenize(l.query)
        term == terms[l.ti]
        doc_id == Head(l.todo)
        doc == l.docs[doc_id]
        n == indexes[l.index_uid].total_documents
        idf == IdfOf(n, l.df)
        fields == IndexedFields(doc, indexes[l.index_uid].primary_key)
        score == l.acc + SumOver(fields, [f \in fields |->
                                            FieldScoreWith(idf, term, f, doc[f])])
        seen == l.obs \cup {[doc_id |-> doc_id, term |-> term, df |-> l.df, n |-> n]}
    IN
    /\ pc[t] = "score_n"
    /\ IF l.ti < Len(terms)
       THEN /\ Goto(t, "score_df")
            /\ local' = [local EXCEPT ![t] =
                            [l EXCEPT !.ti = l.ti + 1, !.acc = score, !.obs = seen]]
       ELSE /\ Goto(t, IF Tail(l.todo) = <<>> THEN "finish" ELSE "score_df")
            /\ local' = [local EXCEPT ![t] =
                            [l EXCEPT !.ti = 1, !.acc = 0, !.obs = seen,
                                      !.todo = Tail(l.todo),
                                      !.scores = [l.scores EXCEPT ![doc_id] = score]]]
    /\ UNCHANGED <<indexes, db_indexes, index_documents, term_index, now, ret,
                   written, phase, probe>>
    /\ Seen

\* search after the scoring: score > 0, sort, page (no filters, no facets,
\* the default limit and offset)
SearchFinish(t) ==
    LET l == local[t]
        scores == {d \in DOMAIN l.docs : l.scores[d] > 0}
        sorted_docs == SortedByScore(l.scores, scores)
        hits_ids == PySlice(sorted_docs, 0, 0 + DefaultLimit)
    IN
    /\ pc[t] = "finish"
    /\ Done(t, l, "ok", Some([index_uid |-> l.index_uid, query |-> l.query,
                              hits |-> [i \in 1..Len(hits_ids) |-> l.docs[hits_ids[i]]],
                              total |-> Len(sorted_docs),
                              facet_distribution |-> <<>>]))
    /\ UNCHANGED <<indexes, db_indexes, index_documents, term_index, now, ret,
                   written, phase, probe>>
    /\ Seen

Quiet == \A t \in Threads : pc[t] = "idle"

NextThreads ==
    \/ Quiet /\ \E c \in CreateInputs : CreateIndex(c[1], c[2], c[3])
    \/ Quiet /\ \E a \in AddInputsThreads : AddDocuments(a[1], a[2])
    \/ \E t \in Threads, c \in ThreadCalls : ThreadCall(t, c)
    \/ \E t \in Threads : UpdateRead(t)
    \/ \E t \in Threads : AddTransaction(t)
    \/ \E t \in Threads : AddCountRead(t)
    \/ \E t \in Threads : AddCountStore(t)
    \/ \E t \in Threads : AddCommit(t)
    \/ \E t \in Threads : DeleteTransaction(t)
    \/ \E t \in Threads : DeleteCountRead(t)
    \/ \E t \in Threads : DeleteCountStore(t)
    \/ \E t \in Threads : SearchRead(t)
    \/ \E t \in Threads : ScoreReadDf(t)
    \/ \E t \in Threads : ScoreReadTotal(t)
    \/ \E t \in Threads : SearchFinish(t)

SpecThreads == Init /\ [][NextThreads]_vars

----------------------------------------------------------------------------
(* Properties.                                                             *)

StoredKeys == DOMAIN index_documents

StoredDoc(k) == JsonLoads(index_documents[k])

PostingsOf(index_uid, doc_id) ==
    [k \in PostingKeys(term_index, index_uid, doc_id) |-> term_index[k]]

\* the terms of the non-key fields of a document
DocTerms(doc, primary_key) ==
    UNION {Range(Tokenize(Str(doc[f]))) : f \in DOMAIN doc \ {primary_key}}

\* C1: the postings of every stored document are exactly those derived from
\* the document as it is stored now: one per non-key field and distinct term,
\* and none left from an earlier version.
C1_PostingsReflectCurrentDocument ==
    \A k \in StoredKeys :
        PostingsOf(k[1], k[2])
            = DocPostings(k[1], indexes[k[1]].primary_key, StoredDoc(k))

HasInvalid(documents, primary_key) ==
    \E i \in 1..Len(documents) : DocId(documents[i], primary_key) = EmptyStr

FirstInvalid(documents, primary_key) ==
    CHOOSE i \in 1..Len(documents) :
        /\ DocId(documents[i], primary_key) = EmptyStr
        /\ \A j \in 1..(i - 1) : DocId(documents[j], primary_key) # EmptyStr

\* C2 as stated: a batch whose k-th document has no id fails with
\* InvalidDocument, and the documents before the k-th remain stored and
\* retrievable after the failed call.
C2_EarlierDocumentsKept ==
    (ret.op = "add_documents" /\ ret.index_uid \in DOMAIN indexes
        /\ HasInvalid(ret.documents, indexes[ret.index_uid].primary_key)) =>
    LET pk == indexes[ret.index_uid].primary_key IN
    /\ ret.err = "InvalidDocument"
    /\ \A j \in 1..(FirstInvalid(ret.documents, pk) - 1) :
          GetDocument(ret.index_uid, DocId(ret.documents[j], pk))
              = Some(ret.documents[j])

\* C2 amended: a batch whose k-th document has no id fails with
\* InvalidDocument and the whole call is rolled back: documents, postings,
\* the registry and the persisted index rows are as before the call, so
\* nothing of the batch, before or after the k-th document, is stored.
C2_FailedBatchRolledBack ==
    [][(ret'.op = "add_documents" /\ ret'.index_uid \in DOMAIN indexes
            /\ HasInvalid(ret'.documents, indexes[ret'.index_uid].primary_key)) =>
       /\ ret'.err = "InvalidDocument"
       /\ UNCHANGED <<index_documents, term_index, indexes, db_indexes>>]_vars

C2_Witness ==
    /\ ret.op = "add_documents"
    /\ ret.err = "InvalidDocument"
    /\ Len(ret.documents) >= 2
    /\ DocId(ret.documents[1], "id") # EmptyStr
    /\ GetDocument(ret.index_uid, DocId(ret.documents[1], "id")) = None
    /\ StoredKeys # {}

\* C3: get_document returns the document last written under the stringified
\* id by a successful add_documents or update_document, absent when none was
\* or it was deleted since; right after add_documents([d]) it returns d.
C3_LastWriteWins ==
    /\ \A k \in StoredKeys \cup DOMAIN written \cup DocKeys :
          GetDocument(k[1], k[2])
              = IF k \in DOMAIN written THEN Some(written[k]) ELSE None
    /\ (ret.op = "add_documents" /\ ret.err = "ok" /\ Len(ret.documents) = 1) =>
          GetDocument(ret.index_uid,
                      DocId(ret.documents[1], indexes[ret.index_uid].primary_key))
              = Some(ret.documents[1])

C3_Witness ==
    /\ ret.op = "add_documents"
    /\ ret.err = "ok"
    /\ ret.documents = <<dn1>>
    /\ GetDocument("books", <<"1">>) = Some(dn1)
    /\ GetDocument("books", <<"2">>) # None

\* C4: after delete_document(index, doc_id), get_document returns absent and
\* no posting of that doc id remains under any term or field, also none left
\* from earlier versions; the documents and postings of other doc ids and of
\* other indexes are unchanged.
C4_DeleteRemovesDocumentAndPostings ==
    [][(ret'.op = "delete_document" /\ ret'.err = "ok") =>
       LET u == ret'.index_uid
           d == ret'.doc_id
           mine(k) == k[1] = u /\ k[3] = d
       IN  /\ SelectDocument(index_documents', u, d) = None
           /\ ~ \E k \in DOMAIN term_index' : mine(k)
           /\ DOMAIN index_documents' = DOMAIN index_documents \ {<<u, d>>}
           /\ \A k \in DOMAIN index_documents' : index_documents'[k] = index_documents[k]
           /\ DOMAIN term_index' = {k \in DOMAIN term_index : ~ mine(k)}
           /\ \A k \in DOMAIN term_index' : term_index'[k] = term_index[k]]_vars

C4_Witness ==
    /\ ret.op = "delete_document"
    /\ ret.err = "ok"
    /\ ret.index_uid = "books"
    /\ ret.doc_id = <<"1">>
    /\ GetDocument("books", <<"1">>) = None
    /\ GetDocument("books", <<"2">>) = Some(d2a)
    /\ GetDocument("films", <<"1">>) = Some(d1b)
    /\ DOMAIN PostingsOf("films", <<"1">>) # {}
    /\ indexes["books"].total_documents = 2

\* C5: total_documents of an index changes only so: a successful
\* add_documents adds the number of input documents, a successful
\* update_document adds 1, a delete_document makes it max(0, n - 1), and a
\* failed call or any other call leaves it as it is; it is never negative.
C5_CounterSteps ==
    [][\A u \in DOMAIN indexes' :
        LET after == indexes'[u].total_documents
            before == IF u \in DOMAIN indexes THEN indexes[u].total_documents ELSE 0
            mine == /\ ret'.err = "ok"
                    /\ ret'.op \in {"add_documents", "update_document", "delete_document"}
                    /\ ret'.index_uid = u
        IN  /\ after >= 0
            /\ after = CASE mine /\ ret'.op = "add_documents" ->
                                before + Len(ret'.documents)
                         [] mine /\ ret'.op = "update_document" -> before + 1
                         [] mine /\ ret'.op = "delete_document" ->
                                IF before >= 1 THEN before - 1 ELSE 0
                         [] OTHER -> before]_vars

C5_Witness ==
    /\ ret.op = "add_documents"
    /\ ret.err = "ok"
    /\ ret.documents = <<d1a, dn1>>
    /\ indexes["books"].total_documents = 3
    /\ Cardinality(StoredKeys) = 1

\* C6: for every existing document and every partial_doc, after a successful
\* update_document(index, doc_id, partial_doc) get_document(index, doc_id)
\* returns the previous document merged with partial_doc; when the document
\* does not exist the call fails with NotFound and changes nothing.
C6_UpdateMergesInPlace ==
    [][(ret'.op = "update_document" /\ ret'.index_uid \in DOMAIN indexes) =>
       LET k == <<ret'.index_uid, ret'.doc_id>> IN
       IF k \in DOMAIN index_documents
       THEN ret'.err = "ok" =>
               SelectDocument(index_documents', k[1], k[2])
                   = Some(Merge(StoredDoc(k), ret'.partial_doc))
       ELSE /\ ret'.err = "NotFound"
            /\ UNCHANGED <<index_documents, term_index, indexes, db_indexes>>]_vars

SearchDone == ret.op = "search" /\ ret.err = "ok"

\* the stored documents of an index with the term in a non-key field
Containing(index_uid, term) ==
    LET documents == Documents(index_uid) IN
    {d \in DOMAIN documents :
        term \in DocTerms(documents[d], indexes[index_uid].primary_key)}

\* C7: in an index built by adding documents with distinct ids once each,
\* then possibly deleting stored documents, an unfiltered search for one term
\* that some but not all stored documents have in a non-key field counts
\* exactly the documents with the term, returns only such documents, and
\* returns all of them when the page is large enough.
C7_SingleTermSearchExact ==
    (SearchDone /\ phase[ret.index_uid] \in {"adding", "deleting"}
        /\ DOMAIN ret.filters = {} /\ Len(Tokenize(ret.query)) = 1) =>
    LET have == Containing(ret.index_uid, Tokenize(ret.query)[1])
        documents == Documents(ret.index_uid)
        r == ret.val[1]
    IN  (have # {} /\ have # DOMAIN documents) =>
           /\ r.total = Cardinality(have)
           /\ Range(r.hits) \subseteq {documents[d] : d \in have}
           /\ (ret.offset = 0 /\ ret.limit >= Cardinality(have)) =>
                 Range(r.hits) = {documents[d] : d \in have}

C7_Witness ==
    /\ SearchDone
    /\ phase["books"] = "deleting"
    /\ ret.query = <<"Dune">>
    /\ DOMAIN ret.filters = {}
    /\ ret.limit = 20 /\ ret.offset = 0
    /\ DOMAIN Documents("books") = {<<"2">>, <<"3">>}
    /\ ret.val[1].total = 1
    /\ ret.val[1].hits = <<d2a>>

\* a posting of doc_id under a term its stored document no longer has
StalePosting(index_uid, term, doc_id) ==
    /\ \E k \in DOMAIN term_index : k[1] = index_uid /\ k[2] = term /\ k[3] = doc_id
    /\ doc_id \notin Containing(index_uid, term)

\* C8 as stated: a stale posting gives a stale match: a search for a term
\* returns every stored document that has a posting left under the term,
\* although an update or re-add removed the term from it.
C8_StaleMatchPersists ==
    (SearchDone /\ DOMAIN ret.filters = {} /\ Len(Tokenize(ret.query)) = 1
        /\ ret.limit = 20 /\ ret.offset = 0) =>
    \A d \in DOMAIN Documents(ret.index_uid) :
        StalePosting(ret.index_uid, Tokenize(ret.query)[1], d) =>
            Documents(ret.index_uid)[d] \in Range(ret.val[1].hits)

\* C8 amended: the postings left behind give no stale match: a search for
\* one term never returns a document whose stored version does not have the
\* term in a non-key field, whatever postings are left under the term.
C8_NoStaleHit ==
    (SearchDone /\ Len(Tokenize(ret.query)) = 1) =>
    \A d \in DOMAIN Documents(ret.index_uid) :
        d \notin Containing(ret.index_uid, Tokenize(ret.query)[1]) =>
            Documents(ret.index_uid)[d] \notin Range(ret.val[1].hits)

C8_Witness ==
    /\ SearchDone
    /\ ret.query = <<"Dune">>
    /\ DOMAIN ret.filters = {}
    /\ ret.limit = 20 /\ ret.offset = 0
    /\ GetDocument("books", <<"1">>) = Some(d1b)
    /\ StalePosting("books", "dune", <<"1">>)
    /\ ret.val[1].hits = <<d2a>>

\* the documents search counts: a score above 0 and all filters passed
Counted(index_uid, query, filters) ==
    LET documents == Documents(index_uid) IN
    {d \in DOMAIN documents :
        /\ Bm25Score(index_uid, Tokenize(query), d, documents[d]) > 0
        /\ MatchesFilters(documents[d], filters)}

PagingOf(r, limit, offset) ==
    /\ offset >= r.total => r.hits = <<>>
    /\ (0 <= offset /\ offset < r.total) =>
          Len(r.hits) = Min(limit, r.total - offset)

TotalOf(r) ==
    /\ r.total = Cardinality(Counted(ret.index_uid, ret.query, ret.filters))
    /\ \A pg \in Pages :
          Search(ret.index_uid, ret.query, ret.filters, ret.facets, ret.sort,
                 pg[1], pg[2]).total = r.total

\* C9 as stated: total is the number of documents that score above 0 and
\* pass the filters, the same for every offset and limit; with offset >= total
\* the hit list is empty; with 0 <= offset < total the number of hits is
\* min(limit, total - offset), for every limit.
C9_PagingAnyLimit ==
    SearchDone => TotalOf(ret.val[1]) /\ PagingOf(ret.val[1], ret.limit, ret.offset)

\* C9 amended: total is the number of documents that score above 0 and pass
\* the filters, the same for every offset and limit; with offset >= total the
\* call raises no error and the hit list is empty; with 0 <= offset < total
\* and limit >= 0 the number of hits is min(limit, total - offset).
C9_TotalAndPaging ==
    SearchDone =>
       /\ TotalOf(ret.val[1])
       /\ ret.limit >= 0 => PagingOf(ret.val[1], ret.limit, ret.offset)
       /\ ret.offset >= ret.val[1].total => ret.val[1].hits = <<>>

C9_Witness ==
    /\ SearchDone
    /\ ret.filters = IdFilter
    /\ ret.limit = 20 /\ ret.offset = 3
    /\ ret.val[1].total = 2
    /\ ret.val[1].hits = <<>>

\* equality that tells text, number and boolean apart
StrictEq(a, b) == a.t = b.t /\ a.n = b.n /\ a.s = b.s

\* every pair passes: the field is present and its value is strictly equal to
\* the expected value, or to one element of an expected list
MatchesFiltersStrict(doc, filters) ==
    \A field \in DOMAIN filters :
        /\ field \in DOMAIN doc
        /\ \E i \in 1..Len(filters[field].items) :
              StrictEq(doc[field], filters[field].items[i])

\* C10: a document matches a filter set iff for every (field, expected) pair
\* the field is present and the document's value equals expected, or one of
\* its elements when expected is a list, under equality that tells text,
\* number and boolean apart.
C10_FiltersTypeStrict ==
    ret.op = "_matches_filters" =>
        ret.val = MatchesFiltersStrict(probe.doc, probe.filters)

\* the search of ret without its filters, on a page
Unfiltered(limit, offset) ==
    Search(ret.index_uid, ret.query, NoFilters, ret.facets, ret.sort, limit, offset)

\* the search of ret with its filters, on a page
Filtered(limit, offset) ==
    Search(ret.index_uid, ret.query, ret.filters, ret.facets, ret.sort, limit, offset)

\* the documents counted with the filters are among those counted without,
\* and total with the filters does not exceed total without
FilteredAmongUnfiltered ==
    /\ Range(Filtered(DefaultLimit, 0).hits) \subseteq Range(Unfiltered(DefaultLimit, 0).hits)
    /\ Filtered(DefaultLimit, 0).total = Cardinality(Range(Filtered(DefaultLimit, 0).hits))
    /\ ret.val[1].total <= Unfiltered(ret.limit, ret.offset).total

\* C11 as stated: for every query, limit, offset and filters F, the documents
\* counted with F are a subset of those counted without filters, and total
\* and the number of hits with F never exceed those without filters.
C11_FilteredNeverExceeds ==
    SearchDone =>
       /\ FilteredAmongUnfiltered
       /\ Len(ret.val[1].hits) <= Len(Unfiltered(ret.limit, ret.offset).hits)

\* C11 amended: the documents counted with F are a subset of those counted
\* without filters and total with F never exceeds total without, for every
\* limit and offset; the number of hits with F never exceeds the number
\* without when offset >= 0.
C11_FilteredSubset ==
    SearchDone =>
       /\ FilteredAmongUnfiltered
       /\ ret.offset >= 0 =>
             Len(ret.val[1].hits) <= Len(Unfiltered(ret.limit, ret.offset).hits)

C11_Witness ==
    /\ SearchDone
    /\ ret.filters = IdFilter
    /\ ret.query = <<"Dune">>
    /\ ret.limit = 20 /\ ret.offset = 0
    /\ ret.val[1].hits = <<d1a>>
    /\ Unfiltered(20, 0).total = 2

\* the stored documents of the index of ret that contain a field
Having(field) ==
    {d \in DOMAIN Documents(ret.index_uid) : field \in DOMAIN Documents(ret.index_uid)[d]}

\* C12: when facets are requested, the distribution of each requested field
\* counts every stored document of the index that contains the field, keyed
\* by the stringified value, its counts sum to the number of stored documents
\* containing the field, and it is the same for every query, filter set,
\* limit and offset.
C12_FacetsCountAllStored ==
    (SearchDone /\ ret.facets # <<>>) =>
    LET dist == ret.val[1].facet_distribution
        documents == Documents(ret.index_uid)
    IN  /\ DOMAIN dist = Range(ret.facets)
        /\ \A f \in Range(ret.facets) :
              /\ DOMAIN dist[f] = {Str(documents[d][f]) : d \in Having(f)}
              /\ \A v \in DOMAIN dist[f] :
                    dist[f][v] = Cardinality({d \in Having(f) : Str(documents[d][f]) = v})
              /\ SumOver(DOMAIN dist[f], dist[f]) = Cardinality(Having(f))
        /\ \A q \in SearchInputsFacet :
              Search(ret.index_uid, q[2], q[3], ret.facets, q[5], q[6], q[7]).facet_distribution
                  = dist

C12_Witness ==
    /\ SearchDone
    /\ ret.facets = <<"title", "flag">>
    /\ ret.filters = FlagFilter
    /\ ret.query = <<"text">>
    /\ ret.val[1].total = 1
    /\ DOMAIN Documents("books") = {<<"1">>, <<"2">>, <<"3">>}
    /\ ret.val[1].facet_distribution["flag"] = (<<"True">> :> 1) @@ (<<"1">> :> 1)
    /\ ret.val[1].facet_distribution["title"][T1] = 2

\* the document frequency of a term in a state seen
SeenDf(s, index_uid, term) ==
    IF <<index_uid, term>> \in DOMAIN s.df THEN s.df[<<index_uid, term>>] ELSE 0

\* C13: a search that runs while another thread writes to the index sees
\* one state: the documents it scores, the document frequencies and the
\* total_documents it reads are those of one state in which no write was
\* half done (looked at when every call has returned).
C13_SearchSeesOneState ==
    \A t \in Threads :
        (/\ \A u \in Threads : pc[u] = "done"
         /\ local[t].op = "search" /\ local[t].err = "ok") =>
        \E s \in hist.snaps :
            /\ local[t].index_uid \in DOMAIN s.docs
            /\ s.docs[local[t].index_uid] = local[t].docs
            /\ \A o \in local[t].obs :
                  /\ o.n = s.n[local[t].index_uid]
                  /\ o.df = SeenDf(s, local[t].index_uid, o.term)

\* what a write does to the counter when it runs alone and succeeds
CounterAfter(l, n) ==
    CASE l.op = "add_documents" -> n + Len(l.documents)
      [] l.op = "update_document" -> n + 1
      [] l.op = "delete_document" -> IF n >= 1 THEN n - 1 ELSE 0
      [] OTHER -> n

\* C14: concurrent writes to one index take effect as in some serial order:
\* of two update_document calls on the same document with different fields
\* both fields are in the stored document at the end, and total_documents
\* ends at the value the writes give one after the other.
C14_WritesSerialized ==
    (/\ \A t \in Threads : pc[t] = "done" /\ local[t].err = "ok"
     /\ local[1].index_uid = local[2].index_uid) =>
    LET u == local[1].index_uid
        n0 == hist.start[u]
    IN  /\ indexes[u].total_documents
              \in {CounterAfter(local[2], CounterAfter(local[1], n0)),
                   CounterAfter(local[1], CounterAfter(local[2], n0))}
        /\ (/\ local[1].op = "update_document" /\ local[2].op = "update_document"
             /\ local[1].doc_id = local[2].doc_id
             /\ DOMAIN local[1].partial_doc \cap DOMAIN local[2].partial_doc = {}) =>
            /\ GetDocument(u, local[1].doc_id) # None
            /\ \A t \in Threads : \A f \in DOMAIN local[t].partial_doc :
                  /\ f \in DOMAIN GetDocument(u, local[1].doc_id)[1]
                  /\ GetDocument(u, local[1].doc_id)[1][f] = local[t].partial_doc[f]

Setters == {"set_searchable_attrs", "set_filterable_attrs", "set_sortable_attrs"}

\* the attribute list a setter is about
ListOfSetter(index, op) ==
    CASE op = "set_searchable_attrs" -> index.searchable_attrs
      [] op = "set_filterable_attrs" -> index.filterable_attrs
      [] OTHER -> index.sortable_attrs

\* C15: each of the three setters, on an existing index, replaces its
\* attribute list by the given list and sets updated_at to the time of the
\* call, leaving the other two lists, total_documents, documents and
\* postings unchanged; on an absent uid it fails with NotFound and changes
\* nothing.
C15_SettersReplaceAndBump ==
    [][ret'.op \in Setters =>
       IF ret'.index_uid \in DOMAIN indexes
       THEN LET u == ret'.index_uid IN
            /\ ret'.err = "ok"
            /\ ListOfSetter(indexes'[u], ret'.op) = ret'.attrs
            /\ indexes'[u].updated_at = now
            /\ \A op \in Setters \ {ret'.op} :
                  ListOfSetter(indexes'[u], op) = ListOfSetter(indexes[u], op)
            /\ indexes'[u].total_documents = indexes[u].total_documents
            /\ UNCHANGED <<index_documents, term_index>>
       ELSE /\ ret'.err = "NotFound"
            /\ UNCHANGED <<indexes, db_indexes, index_documents, term_index>>]_vars

\* the catalog after a create_index that succeeded: the indexes it had, and
\* one more with no documents, no attributes and the default ranking rules
Created(uid, primary_key, name) ==
    /\ DOMAIN indexes' = DOMAIN indexes \cup {uid}
    /\ \A u \in DOMAIN indexes : indexes'[u] = indexes[u]
    /\ indexes'[uid].uid = uid
    /\ indexes'[uid].name = name
    /\ indexes'[uid].primary_key = primary_key
    /\ indexes'[uid].total_documents = 0
    /\ indexes'[uid].searchable_attrs = <<>>
    /\ indexes'[uid].filterable_attrs = <<>>
    /\ indexes'[uid].sortable_attrs = <<>>
    /\ indexes'[uid].ranking_rules = <<"typo", "words", "proximity", "attribute", "exactness">>
    /\ db_indexes'[uid] = indexes'[uid]

\* the display name create_index uses
GivenName(r) == IF r.name = "" THEN r.uid ELSE r.name

\* C16 as stated: create_index succeeds for every uid not in the catalog,
\* whatever name is given or defaulted, and yields an index with
\* total_documents 0, empty attribute lists and the default ranking rules;
\* when the uid is taken it fails with AlreadyExists and leaves the catalog
\* and the existing index unchanged.
C16_CreateSucceedsForFreshUid ==
    [][ret'.op = "create_index" =>
       IF ret'.uid \in DOMAIN indexes
       THEN ret'.err = "AlreadyExists" /\ UNCHANGED <<indexes, db_indexes>>
       ELSE ret'.err = "ok" /\ Created(ret'.uid, ret'.primary_key, GivenName(ret'))]_vars

\* C16 amended: create_index succeeds for every uid not in the catalog whose
\* name, given or defaulted to the uid, is not the name of an index of the
\* catalog; when the uid is taken it fails with AlreadyExists, when only the
\* name is taken it fails with another error, and both leave the catalog
\* and the existing indexes unchanged.
C16_CreateNeedsFreshUidAndName ==
    [][ret'.op = "create_index" =>
       IF ret'.uid \in DOMAIN indexes
       THEN ret'.err = "AlreadyExists" /\ UNCHANGED <<indexes, db_indexes>>
       ELSE IF \E u \in DOMAIN indexes : indexes[u].name = GivenName(ret')
            THEN /\ ret'.err \notin {"ok", "AlreadyExists"}
                 /\ UNCHANGED <<indexes, db_indexes>>
            ELSE /\ ret'.err = "ok"
                 /\ Created(ret'.uid, ret'.primary_key, GivenName(ret'))]_vars

C16_Witness ==
    /\ ret.op = "create_index"
    /\ ret.uid = "films"
    /\ ret.name = "Library"
    /\ ret.err = "IntegrityError"
    /\ DOMAIN indexes = {"books"}
    /\ indexes["books"].name = "Library"
    /\ indexes["books"].total_documents = 2

\* the index a query object names
UidOf(q) == IF "index_uid" \in DOMAIN q THEN q.index_uid ELSE NoneUid

\* what search returns for one query object alone
Alone(q) ==
    Search(UidOf(q),
           IF "query" \in DOMAIN q THEN q.query ELSE <<>>,
           IF "filters" \in DOMAIN q THEN q.filters ELSE NoFilters,
           IF "facets" \in DOMAIN q THEN q.facets ELSE NoFacets,
           IF "sort" \in DOMAIN q THEN q.sort ELSE NoSort,
           IF "limit" \in DOMAIN q THEN q.limit ELSE 20,
           IF "offset" \in DOMAIN q THEN q.offset ELSE 0)

\* C17: multi_search returns one result per query, in the order of the
\* queries, the i-th being what search returns for the i-th query alone on
\* the same state (it raises NotFound as search does when a query names an
\* absent index), with nothing merged or dropped, and changes no state.
C17_MultiSearchFansOut ==
    [][ret'.op = "multi_search" =>
       LET queries == ret'.queries IN
       /\ UNCHANGED <<indexes, db_indexes, index_documents, term_index>>
       /\ IF \A i \in 1..Len(queries) : UidOf(queries[i]) \in DOMAIN indexes
          THEN /\ ret'.err = "ok"
               /\ Len(ret'.val) = Len(queries)
               /\ \A i \in 1..Len(queries) : ret'.val[i] = Alone(queries[i])
          ELSE ret'.err = "NotFound"]_vars

C17_Witness ==
    /\ ret.op = "multi_search"
    /\ ret.err = "ok"
    /\ ret.queries = <<qa, qb, qc>>
    /\ Len(ret.val) = 3
    /\ ret.val[1].index_uid = "books" /\ ret.val[1].hits = <<d1a>>
    /\ ret.val[2].index_uid = "films" /\ ret.val[2].hits = <<d1b>>
    /\ ret.val[3].index_uid = "books" /\ ret.val[3].total = 0

MaxFieldLen == 3

\* a text of len words with tf occurrences of "dune"
TfText(tf, len) == Text([i \in 1..len |-> IF i <= tf THEN "Dune" ELSE "world"])

\* C18: in every reachable state, for a fixed field and field length, more
\* occurrences of a query term in the field never give a smaller
\* contribution weight * idf * bm25 of that term.
C18_ContributionMonotone ==
    \A u \in DOMAIN indexes : \A field \in {"title", "description", "body", "flag"} :
        \A len \in 1..MaxFieldLen : \A tf \in 1..(len - 1) :
            FieldScore(u, "dune", field, TfText(tf, len))
                <= FieldScore(u, "dune", field, TfText(tf + 1, len))

\* C19: total_documents of an index is at least the number of documents
\* stored in it, whatever add_documents, update_document and delete_document
\* calls were made, deletes of ids that are not stored included.
C19_CounterCoversStored ==
    \A u \in DOMAIN indexes :
        indexes[u].total_documents >= Cardinality(DOMAIN Documents(u))

\* the terms that have a posting in an index
TermsOf(index_uid) == {k[2] : k \in {x \in DOMAIN term_index : x[1] = index_uid}}

\* C20: every posting's (index, doc id) is that of a stored document, every
\* stored document is stored under the stringified value of its own
\* primary-key field, and the document frequency of a term never exceeds
\* the number of stored documents.
C20_NoOrphanPostings ==
    /\ \A k \in DOMAIN term_index : <<k[1], k[3]>> \in StoredKeys
    /\ \A k \in StoredKeys :
          /\ k[1] \in DOMAIN indexes
          /\ DocId(StoredDoc(k), indexes[k[1]].primary_key) = k[2]
    /\ \A u \in DOMAIN indexes : \A term \in TermsOf(u) :
          DocFrequency(u, term) <= Cardinality(DOMAIN Documents(u))

C20_Witness ==
    /\ ret.op = "delete_document"
    /\ ret.err = "ok"
    /\ ret.doc_id = <<"2">>
    /\ GetDocument("books", <<"1">>) = Some(dn1)
    /\ GetDocument("books", <<"3">>) # None
    /\ StalePosting("books", "text", <<"1">>)
    /\ DocFrequency("books", "text") = 2

\* C21: a term whose document frequency is at least total_documents
\* contributes nothing positive to any score; so in an index whose
\* total_documents is its number of stored documents, a search for one term
\* that every stored document has returns total 0 and no hits.
C21_CommonTermFindsNothing ==
    /\ \A u \in DOMAIN indexes : \A term \in TermsOf(u) \cup {"dune", "text"} :
          DocFrequency(u, term) >= indexes[u].total_documents =>
             \A d \in DOMAIN Documents(u) :
                \A f \in DOMAIN Documents(u)[d] \ {indexes[u].primary_key} :
                   FieldScore(u, term, f, Documents(u)[d][f]) <= 0
    /\ (/\ SearchDone /\ Len(Tokenize(ret.query)) = 1
         /\ indexes[ret.index_uid].total_documents
               = Cardinality(DOMAIN Documents(ret.index_uid))
         /\ Containing(ret.index_uid, Tokenize(ret.query)[1])
               = DOMAIN Documents(ret.index_uid)) =>
          ret.val[1].total = 0 /\ ret.val[1].hits = <<>>

C21_Witness ==
    /\ SearchDone
    /\ ret.query = <<"Dune">>
    /\ DOMAIN ret.filters = {}
    /\ ret.limit = 20 /\ ret.offset = 0
    /\ indexes["books"].total_documents = 2
    /\ GetDocument("books", <<"1">>) = Some(d1a)
    /\ GetDocument("books", <<"2">>) = Some(d2a)
    /\ GetDocument("books", <<"3">>) = None
    /\ ret.val[1].total = 0

\* C22: after every completed operation the registry in memory equals the
\* persisted rows: the same indexes, and for each the total_documents,
\* updated_at and the three attribute lists that a freshly loaded engine
\* would hold, so both rank with the same N.
C22_RegistryEqualsPersisted ==
    /\ DOMAIN LoadIndexes = DOMAIN indexes
    /\ \A u \in DOMAIN indexes :
          /\ LoadIndexes[u].total_documents = indexes[u].total_documents
          /\ LoadIndexes[u].updated_at = indexes[u].updated_at
          /\ LoadIndexes[u].searchable_attrs = indexes[u].searchable_attrs
          /\ LoadIndexes[u].filterable_attrs = indexes[u].filterable_attrs
          /\ LoadIndexes[u].sortable_attrs = indexes[u].sortable_attrs
          /\ IdfOf(LoadIndexes[u].total_documents, 1)
               = IdfOf(indexes[u].total_documents, 1)

====
